---- MODULE Spec2Model ----
(***************************************************************************)
(* Cascading duplicate-content analysis of app.py.                         *)
(*                                                                         *)
(* A text value is a sequence of one-character strings; whitespace is the  *)
(* character " ", the key delimiter is "|".  A missing value (pandas NaN)  *)
(* is the one-element sequence NaN, whose element is no character.  A row  *)
(* of the DataFrame is a function from the column names of the CSV file    *)
(* to values, a DataFrame is a sequence of rows.  A Python dict is a       *)
(* sequence of [key, pages] entries in insertion order.                    *)
(***************************************************************************)
EXTENDS Integers, Sequences, FiniteSets, TLC

VARIABLES
    data,             \* the DataFrame main() hands to analyze_duplicates
    pc,               \* position in main() / analyze_duplicates
    stdout,           \* what sys.stdout is bound to: "console" or "buffer"
    analysis_output,  \* lines printed into the StringIO buffer
    console,          \* lines printed on the real console
    excluded_urls,    \* URLs already attributed to a combination report
    full_duplicates,
    title_h1_duplicates,
    title_meta_duplicates,
    element_duplicates,   \* element -> result of its single-field pass
    files,                \* filename -> rows written (<<>>: not written)
    calls,                \* pass -> the arguments its grouping call was given
    call_args,            \* arguments of a function applied on its own
    call_result           \* what that application returned

vars == <<data, pc, stdout, analysis_output, console, excluded_urls,
          full_duplicates, title_h1_duplicates, title_meta_duplicates,
          element_duplicates, files, calls, call_args, call_result>>

\* the variables of the functions applied on their own
unit_vars == <<call_args, call_result>>

----------------------------------------------------------------------------
(* Bounds of the model *)

MaxRecords == 4

----------------------------------------------------------------------------
(* Values *)

NaN == <<"NaN">>

Range(s) == {s[i] : i \in DOMAIN s}

RECURSIVE lstrip(_)
lstrip(s) == IF s # <<>> /\ Head(s) = " " THEN lstrip(Tail(s)) ELSE s

RECURSIVE rstrip(_)
rstrip(s) ==
    IF s # <<>> /\ s[Len(s)] = " " THEN rstrip(SubSeq(s, 1, Len(s) - 1)) ELSE s

\* str.strip(): leading and trailing whitespace removed
strip(s) == rstrip(lstrip(s))

\* Python's None
None == <<"None">>

\* mutant: no value is recognised as missing
isna_Never(value) == FALSE

\* pd.isna(value)
isna(value) == value \in {NaN, None}

\* '|'.join(values)
RECURSIVE join(_)
join(values) ==
    IF values = <<>> THEN <<>>
    ELSE IF Len(values) = 1 THEN values[1]
    ELSE values[1] \o <<"|">> \o join(Tail(values))

----------------------------------------------------------------------------
(* clean_value, create_composite_key *)

clean_value(value) ==
    IF isna(value) \/ value = None \/ strip(value) = <<>> THEN <<>>
    ELSE strip(value)

mapping ==
    [title |-> "Title", h1 |-> "metadata-h1-contents",
     meta_description |-> "Meta Description"]

create_composite_key(row, elements) ==
    join([i \in 1..Len(elements) |-> clean_value(row[mapping[elements[i]]])])

----------------------------------------------------------------------------
(* Grouping *)

\* the page dict appended to a group (lines 51-56 and 85-90)
Page(row) ==
    [url |-> row["Full URL"],
     title |-> clean_value(row["Title"]),
     h1 |-> clean_value(row["metadata-h1-contents"]),
     meta_description |-> clean_value(row["Meta Description"])]

\* mutant: the key is looked up in the last entry only
DictAppend_LastOnly(duplicates, key, page) ==
    IF duplicates # <<>> /\ duplicates[Len(duplicates)].key = key
    THEN [duplicates EXCEPT ![Len(duplicates)].pages = Append(@, page)]
    ELSE Append(duplicates, [key |-> key, pages |-> <<page>>])

\* mutant: the page is put in front of the pages of its key
DictAppend_Prepending(duplicates, key, page) ==
    IF \E i \in DOMAIN duplicates : duplicates[i].key = key
    THEN [i \in DOMAIN duplicates |->
            IF duplicates[i].key = key
            THEN [duplicates[i] EXCEPT !.pages = <<page>> \o @]
            ELSE duplicates[i]]
    ELSE Append(duplicates, [key |-> key, pages |-> <<page>>])

\* duplicates[key].append(page) on a defaultdict(list)
DictAppend(duplicates, key, page) ==
    IF \E i \in DOMAIN duplicates : duplicates[i].key = key
    THEN [i \in DOMAIN duplicates |->
            IF duplicates[i].key = key
            THEN [duplicates[i] EXCEPT !.pages = Append(@, page)]
            ELSE duplicates[i]]
    ELSE Append(duplicates, [key |-> key, pages |-> <<page>>])

\* mutant: a group of one page passes the filter
IsDuplicateGroup_AtLeastOne(entry) == Len(entry.pages) >= 1

\* {k: v for k, v in duplicates.items() if len(v) > 1}
IsDuplicateGroup(entry) == Len(entry.pages) > 1

FilterDuplicates(duplicates) == SelectSeq(duplicates, IsDuplicateGroup)

\* mutant: only the first selected element is tested
SkipRow_FirstOnly(row, elements, require_nonempty) ==
    require_nonempty /\ clean_value(row[mapping[elements[1]]]) = <<>>

\* the skip test of lines 41-48
SkipRow(row, elements, require_nonempty) ==
    require_nonempty
    /\ \E i \in 1..Len(elements) : clean_value(row[mapping[elements[i]]]) = <<>>

\* the loop of lines 38-56 over the rows from index i on
RECURSIVE GroupRows(_, _, _, _, _)
GroupRows(df, i, elements, require_nonempty, duplicates) ==
    IF i > Len(df) THEN duplicates
    ELSE GroupRows(df, i + 1, elements, require_nonempty,
            IF SkipRow(df[i], elements, require_nonempty) THEN duplicates
            ELSE DictAppend(duplicates,
                            create_composite_key(df[i], elements), Page(df[i])))

find_duplicates(df, elements, require_nonempty) ==
    FilterDuplicates(GroupRows(df, 1, elements, require_nonempty, <<>>))

\* the columns of a DataFrame
ColumnsOf(df) ==
    IF df = <<>>
    THEN {"Full URL", "Title", "metadata-h1-contents", "Meta Description"}
    ELSE DOMAIN df[1]

\* The iteration of lines 38-56 for one row raises KeyError at the first
\* access of a column the row does not have.  The skip test reads the selected
\* columns in order and stops at the first empty value; a row that is not
\* skipped is read in all four columns (lines 50-56).
RowRaises(row, elements, require_nonempty) ==
    LET missing(i) == mapping[elements[i]] \notin DOMAIN row
        stops == {i \in 1..Len(elements) :
                    \/ missing(i)
                    \/ /\ require_nonempty
                       /\ clean_value(row[mapping[elements[i]]]) = <<>>}
        first == CHOOSE i \in stops : \A j \in stops : i <= j
    IN  IF stops = {}
        THEN \E c \in {"Full URL", "Title", "metadata-h1-contents",
                        "Meta Description"} : c \notin DOMAIN row
        ELSE missing(first)

\* find_duplicates leaves with KeyError
find_duplicates_raises(df, elements, require_nonempty) ==
    \E i \in DOMAIN df : RowRaises(df[i], elements, require_nonempty)

\* mutant: no row is removed
WithoutUrls_KeepAll(df, exclude_urls) == df

\* df[~df['Full URL'].isin(exclude_urls)]
WithoutUrls(df, exclude_urls) ==
    LET keep(row) == row["Full URL"] \notin exclude_urls
    IN  SelectSeq(df, keep)

\* df[df[column].notna()]
NotNaRows(df, column) ==
    LET keep(row) == ~isna(row[column])
    IN  SelectSeq(df, keep)

\* df[df[column].str.strip() != '']
NonBlankRows(df, column) ==
    LET keep(row) == strip(row[column]) # <<>>
    IN  SelectSeq(df, keep)

\* The .str accessor of line 79 exists only on a column of strings.  A column
\* of a non-empty DataFrame that holds nothing but NaN has dtype float64
\* (row selection keeps the dtype), and .str raises AttributeError on it.
HasStrAccessor(df, column) ==
    df = <<>> \/ \E i \in DOMAIN df : ~isna(df[i][column])

\* the loop of lines 82-90 over the rows from index i on
RECURSIVE GroupByColumn(_, _, _, _)
GroupByColumn(df, i, column, duplicates) ==
    IF i > Len(df) THEN duplicates
    ELSE GroupByColumn(df, i + 1, column,
            DictAppend(duplicates, clean_value(df[i][column]), Page(df[i])))

\* the sample lines of 96-99: the first three groups
SampleLines(duplicates) ==
    IF duplicates = <<>> THEN <<>>
    ELSE <<<<"Sample duplicate values:">>>> \o
         [i \in 1..(IF Len(duplicates) < 3 THEN Len(duplicates) ELSE 3) |->
            <<i, duplicates[i].key, Len(duplicates[i].pages)>>]

\* find_single_element_duplicates: [raised, result, out], out the lines printed.
\* KeyError at line 74 without the URL column, at line 78 without the column
\* of the element, in the loop of lines 82-90 without one of the four columns;
\* AttributeError at line 79 without the .str accessor.
find_single_element_duplicates(df, element, exclude_urls) ==
    LET column == mapping[element]
        working == WithoutUrls(df, exclude_urls)
        notna == NotNaRows(working, column)
        nonblank == NonBlankRows(notna, column)
        duplicates == FilterDuplicates(GroupByColumn(nonblank, 1, column, <<>>))
        before == << <<"Analyzing duplicates:", element>>,
                     <<"Total rows before exclusions:", Len(df)>> >>
        head == before \o << <<"Rows after URL exclusions:", Len(working)>> >>
        counted == head \o << <<"Rows with non-empty:", element, Len(nonblank)>> >>
    IN  IF "Full URL" \notin ColumnsOf(df)
        THEN [raised |-> TRUE, result |-> <<>>, out |-> before]
        ELSE IF column \notin ColumnsOf(df) \/ ~HasStrAccessor(df, column)
        THEN [raised |-> TRUE, result |-> <<>>, out |-> head]
        ELSE IF nonblank # <<>> /\ \E i \in DOMAIN mapping :
                                      mapping[i] \notin ColumnsOf(df)
        THEN [raised |-> TRUE, result |-> <<>>, out |-> counted]
        ELSE [raised |-> FALSE, result |-> duplicates,
              out |-> counted \o << <<"Found duplicate groups for:", element,
                                      Len(duplicates)>> >>
                             \o SampleLines(duplicates)]

\* mutant: only the first page of each group is collected
get_urls_from_duplicates_FirstPage(duplicates) ==
    {duplicates[i].pages[1].url : i \in DOMAIN duplicates}

get_urls_from_duplicates(duplicates) ==
    UNION {{duplicates[i].pages[j].url : j \in DOMAIN duplicates[i].pages} :
           i \in DOMAIN duplicates}

----------------------------------------------------------------------------
(* export_duplicate_report *)

\* mutant: the groups are numbered from 0
GroupRowsOf_FromZero(group_id, pages) ==
    [j \in DOMAIN pages |->
        [GroupID |-> group_id - 1, URL |-> pages[j].url,
         Title |-> pages[j].title, H1 |-> pages[j].h1,
         MetaDescription |-> pages[j].meta_description]]

\* the rows of one group, lines 139-146
GroupRowsOf(group_id, pages) ==
    [j \in DOMAIN pages |->
        [GroupID |-> group_id, URL |-> pages[j].url, Title |-> pages[j].title,
         H1 |-> pages[j].h1, MetaDescription |-> pages[j].meta_description]]

RECURSIVE DuplicateRows(_, _)
DuplicateRows(duplicates, group_id) ==
    IF group_id > Len(duplicates) THEN <<>>
    ELSE GroupRowsOf(group_id, duplicates[group_id].pages)
         \o DuplicateRows(duplicates, group_id + 1)

\* the description row and the blank row, lines 120-135
HeaderRows(description) ==
    << [GroupID |-> "REPORT DESCRIPTION", URL |-> description, Title |-> <<>>,
        H1 |-> <<>>, MetaDescription |-> <<>>],
       [GroupID |-> "", URL |-> "", Title |-> <<>>, H1 |-> <<>>,
        MetaDescription |-> <<>>] >>

\* the value returned: False when there is nothing to export
export_duplicate_report(duplicates) == duplicates # <<>>

\* the files after export_duplicate_report(duplicates, filename, description)
Exported(duplicates, filename, description) ==
    IF duplicates = <<>> THEN files
    ELSE [files EXCEPT ![filename] =
            HeaderRows(description) \o DuplicateRows(duplicates, 1)]

----------------------------------------------------------------------------
(* The datasets analysed *)

Columns == {"Full URL", "Title", "metadata-h1-contents", "Meta Description"}

Url(i) == "u" \o ToString(i)

Row(i, t, h, m) ==
    [c \in Columns |->
        IF c = "Full URL" THEN Url(i)
        ELSE IF c = "Title" THEN t
        ELSE IF c = "metadata-h1-contents" THEN h
        ELSE m]

\* Value sets of the three text columns.  Mixed: Title and H1 can match or
\* differ, Meta Description can match or be missing.  Blank: missing,
\* whitespace-only and padded values.  Delimited: values that contain the key
\* delimiter.
Mixed ==
    [t |-> {<<"a">>, <<"b">>}, h |-> {<<"a">>, <<"b">>}, m |-> {NaN, <<"a">>}]

Blank ==
    [t |-> {NaN, <<"a">>, <<" ", "a">>}, h |-> {<<" ">>, <<"a", " ">>},
     m |-> {<<"a">>}]

Delimited ==
    [t |-> {<<"a">>, <<"a", "|">>}, h |-> {<<"a">>, <<"|", "a">>},
     m |-> {<<"a">>}]

Families == {Mixed, Blank, Delimited}

\* the DataFrames of n rows over a family of values; URLs are unique
Datasets(F, n) ==
    {[i \in 1..n |-> Row(i, f[i][1], f[i][2], f[i][3])] :
        f \in [1..n -> F.t \X F.h \X F.m]}

Elements == {"title", "h1", "meta_description"}

\* the six grouping calls of analyze_duplicates, lines 166, 176, 187, 198
Passes == {"full", "title_h1", "title_meta"} \cup Elements

NotRun == [ran |-> FALSE, df |-> <<>>, exclude_urls |-> {}]

\* the call of a pass: the DataFrame handed over, and the exclusion set then
Call(df, exclude_urls) == [ran |-> TRUE, df |-> df, exclude_urls |-> exclude_urls]

FileNames ==
    {"duplicate_full_matches.csv", "duplicate_title_h1_matches.csv",
     "duplicate_title_meta_matches.csv", "duplicate_title_only_matches.csv",
     "duplicate_h1_only_matches.csv",
     "duplicate_meta_description_only_matches.csv", "duplicate_analysis.txt"}

----------------------------------------------------------------------------
(* main and analyze_duplicates *)

Init ==
    /\ \E F \in Families : \E n \in 0..MaxRecords : data \in Datasets(F, n)
    /\ pc = "main"
    /\ stdout = "console"
    /\ analysis_output = <<>>
    /\ console = <<>>
    /\ excluded_urls = {}
    /\ full_duplicates = <<>>
    /\ title_h1_duplicates = <<>>
    /\ title_meta_duplicates = <<>>
    /\ element_duplicates = [e \in Elements |-> <<>>]
    /\ files = [f \in FileNames |-> <<>>]
    /\ calls = [p \in Passes |-> NotRun]
    /\ call_args = <<>>
    /\ call_result = <<>>

\* print(...): the lines go to whatever sys.stdout is bound to
Emit(lines) ==
    IF stdout = "buffer"
    THEN /\ analysis_output' = analysis_output \o lines
         /\ console' = console
    ELSE /\ console' = console \o lines
         /\ analysis_output' = analysis_output

\* main calls analyze_duplicates(data); lines 154-162
Begin ==
    /\ pc = "main"
    /\ pc' = "full"
    /\ UNCHANGED unit_vars
    /\ stdout' = "buffer"
    /\ analysis_output' =
          << <<"=== SEO Duplicate Content Analysis Report ===">>,
             <<"Analysis Date:">> >>
    /\ excluded_urls' = {}
    /\ UNCHANGED <<data, console, full_duplicates, title_h1_duplicates,
                   title_meta_duplicates, element_duplicates, files, calls>>

\* mutant: the exclusion set is replaced by the URLs of the new report
ExportAndExclude_Replacing(duplicates, filename, description, label) ==
    /\ files' = Exported(duplicates, filename, description)
    /\ IF export_duplicate_report(duplicates)
       THEN /\ Emit(<< <<"Found groups of", label, Len(duplicates)>>,
                       <<"Exported to", filename>> >>)
            /\ excluded_urls' = get_urls_from_duplicates(duplicates)
       ELSE /\ Emit(<<>>)
            /\ excluded_urls' = excluded_urls

\* what follows the grouping call of a combination pass: lines 168-172,
\* 179-183, 190-194
ExportAndExclude(duplicates, filename, description, label) ==
    /\ files' = Exported(duplicates, filename, description)
    /\ IF export_duplicate_report(duplicates)
       THEN /\ Emit(<< <<"Found groups of", label, Len(duplicates)>>,
                       <<"Exported to", filename>> >>)
            /\ excluded_urls' =
                  excluded_urls \cup get_urls_from_duplicates(duplicates)
       ELSE /\ Emit(<<>>)
            /\ excluded_urls' = excluded_urls

\* an exception leaves the stage: nothing is exported, excluded or printed
Aborted ==
    /\ files' = files
    /\ excluded_urls' = excluded_urls
    /\ Emit(<<>>)
    /\ pc' = "raised"

\* lines 164-172
FullPass ==
    /\ pc = "full"
    /\ UNCHANGED unit_vars
    /\ LET full_elements == <<"title", "h1", "meta_description">>
           duplicates == find_duplicates(data, full_elements, TRUE)
       IN  /\ calls' = [calls EXCEPT !["full"] = Call(data, excluded_urls)]
           /\ IF find_duplicates_raises(data, full_elements, TRUE)
              THEN /\ full_duplicates' = full_duplicates
                   /\ Aborted
              ELSE /\ full_duplicates' = duplicates
                   /\ ExportAndExclude(duplicates, "duplicate_full_matches.csv",
                         "FULL DUPLICATES REPORT: Pages where Title, Meta Description, AND H1 are identical",
                         "full duplicates")
                   /\ pc' = "title_h1"
    /\ UNCHANGED <<data, stdout, title_h1_duplicates, title_meta_duplicates,
                   element_duplicates>>

\* lines 174-183
TitleH1Pass ==
    /\ pc = "title_h1"
    /\ UNCHANGED unit_vars
    /\ LET title_h1_elements == <<"title", "h1">>
           df == WithoutUrls(data, excluded_urls)
           duplicates == find_duplicates(df, title_h1_elements, TRUE)
       IN  IF "Full URL" \notin ColumnsOf(data)
           THEN /\ UNCHANGED <<title_h1_duplicates, calls>>
                /\ Aborted
           ELSE /\ calls' = [calls EXCEPT !["title_h1"] = Call(df, excluded_urls)]
                /\ IF find_duplicates_raises(df, title_h1_elements, TRUE)
                   THEN /\ title_h1_duplicates' = title_h1_duplicates
                        /\ Aborted
                   ELSE /\ title_h1_duplicates' = duplicates
                        /\ ExportAndExclude(duplicates,
                              "duplicate_title_h1_matches.csv",
                              "TITLE + H1 DUPLICATES REPORT: Pages where Title and H1 match (excluding previous reports)",
                              "Title + H1 duplicates")
                        /\ pc' = "title_meta"
    /\ UNCHANGED <<data, stdout, full_duplicates, title_meta_duplicates,
                   element_duplicates>>

\* lines 185-194
TitleMetaPass ==
    /\ pc = "title_meta"
    /\ UNCHANGED unit_vars
    /\ LET title_meta_elements == <<"title", "meta_description">>
           df == WithoutUrls(data, excluded_urls)
           duplicates == find_duplicates(df, title_meta_elements, TRUE)
       IN  IF "Full URL" \notin ColumnsOf(data)
           THEN /\ UNCHANGED <<title_meta_duplicates, calls>>
                /\ Aborted
           ELSE /\ calls' = [calls EXCEPT !["title_meta"] = Call(df, excluded_urls)]
                /\ IF find_duplicates_raises(df, title_meta_elements, TRUE)
                   THEN /\ title_meta_duplicates' = title_meta_duplicates
                        /\ Aborted
                   ELSE /\ title_meta_duplicates' = duplicates
                        /\ ExportAndExclude(duplicates,
                              "duplicate_title_meta_matches.csv",
                              "TITLE + META DUPLICATES REPORT: Pages where Title and Meta Description match (excluding previous reports)",
                              "Title + Meta duplicates")
                        /\ pc' = "title"
    /\ UNCHANGED <<data, stdout, full_duplicates, title_h1_duplicates,
                   element_duplicates>>

\* for element in ['title', 'h1', 'meta_description']
NextPc(element) ==
    IF element = "title" THEN "h1"
    ELSE IF element = "h1" THEN "meta_description"
    ELSE "finish"

\* element.replace('_', ' ').title()
ElementName(element) ==
    IF element = "title" THEN "Title"
    ELSE IF element = "h1" THEN "H1"
    ELSE "Meta Description"

SingleFileName(element) == "duplicate_" \o element \o "_only_matches.csv"

SingleDescription(element) ==
    "DUPLICATE " \o ElementName(element) \o "S REPORT: Pages where only the "
    \o ElementName(element) \o " matches (excluding all previous reports)"

\* mutant: the loop adds the URLs of each single-field report to the
\* exclusion set, as the combination passes do
SinglePass_Excluding(element) ==
    /\ pc = element
    /\ UNCHANGED unit_vars
    /\ calls' = [calls EXCEPT ![element] = Call(data, excluded_urls)]
    /\ LET call == find_single_element_duplicates(data, element, excluded_urls)
       IN  IF call.raised
           THEN /\ Emit(call.out)
                /\ pc' = "raised"
                /\ UNCHANGED <<element_duplicates, files, excluded_urls>>
           ELSE /\ element_duplicates' =
                      [element_duplicates EXCEPT ![element] = call.result]
                /\ files' = Exported(call.result, SingleFileName(element),
                                     SingleDescription(element))
                /\ Emit(call.out)
                /\ excluded_urls' =
                      excluded_urls \cup get_urls_from_duplicates(call.result)
                /\ pc' = NextPc(element)
    /\ UNCHANGED <<data, stdout, full_duplicates, title_h1_duplicates,
                   title_meta_duplicates>>

\* one iteration of the loop of lines 197-207
SinglePass(element) ==
    /\ pc = element
    /\ UNCHANGED unit_vars
    /\ calls' = [calls EXCEPT ![element] = Call(data, excluded_urls)]
    /\ LET call == find_single_element_duplicates(data, element, excluded_urls)
       IN  IF call.raised
           THEN /\ Emit(call.out)
                /\ pc' = "raised"
                /\ UNCHANGED <<element_duplicates, files>>
           ELSE /\ element_duplicates' =
                      [element_duplicates EXCEPT ![element] = call.result]
                /\ files' = Exported(call.result, SingleFileName(element),
                                     SingleDescription(element))
                /\ Emit(call.out \o
                      IF call.result # <<>>
                      THEN << <<"Found groups of only duplicates",
                                ElementName(element), Len(call.result)>>,
                              <<"Exported to", SingleFileName(element)>> >>
                      ELSE <<>>)
                /\ pc' = NextPc(element)
    /\ UNCHANGED <<data, stdout, excluded_urls, full_duplicates,
                   title_h1_duplicates, title_meta_duplicates>>

\* lines 209-220, then main returns
Finish ==
    /\ pc = "finish"
    /\ UNCHANGED unit_vars
    /\ stdout' = "console"
    /\ files' = [files EXCEPT !["duplicate_analysis.txt"] = analysis_output]
    /\ console' = console \o analysis_output
                  \o << <<"Analysis report saved to", "duplicate_analysis.txt">> >>
    /\ pc' = "done"
    /\ UNCHANGED <<data, analysis_output, excluded_urls, full_duplicates,
                   title_h1_duplicates, title_meta_duplicates,
                   element_duplicates, calls>>

\* an exception leaves analyze_duplicates; main's handler of lines 229-230
HandleException ==
    /\ pc = "raised"
    /\ UNCHANGED unit_vars
    /\ Emit(<< <<"Error: An unexpected error occurred:">> >>)
    /\ pc' = "failed"
    /\ UNCHANGED <<data, stdout, excluded_urls, full_duplicates,
                   title_h1_duplicates, title_meta_duplicates,
                   element_duplicates, files, calls>>

Next ==
    \/ Begin
    \/ FullPass
    \/ TitleH1Pass
    \/ TitleMetaPass
    \/ \E element \in Elements : SinglePass(element)
    \/ Finish
    \/ HandleException

Spec == Init /\ [][Next]_vars

----------------------------------------------------------------------------
(* The reports of a run, read back from the files written *)

CombinationPasses == {"full", "title_h1", "title_meta"}

ReportFile(p) ==
    IF p = "full" THEN "duplicate_full_matches.csv"
    ELSE IF p = "title_h1" THEN "duplicate_title_h1_matches.csv"
    ELSE IF p = "title_meta" THEN "duplicate_title_meta_matches.csv"
    ELSE SingleFileName(p)

\* the selector list of a pass
Selectors(p) ==
    IF p = "full" THEN {"title", "h1", "meta_description"}
    ELSE IF p = "title_h1" THEN {"title", "h1"}
    ELSE IF p = "title_meta" THEN {"title", "meta_description"}
    ELSE {p}

\* the rows of a report below the description row and the blank row
DataRows(p) ==
    LET rows == files[ReportFile(p)]
    IN  IF rows = <<>> THEN {} ELSE {rows[i] : i \in 3..Len(rows)}

ReportUrls(p) == {r.URL : r \in DataRows(p)}

GroupIds(p) == {r.GroupID : r \in DataRows(p)}

Members(p, g) == {r \in DataRows(p) : r.GroupID = g}

\* the normalized value of a field in a report row
FieldOf(r, element) ==
    IF element = "title" THEN r.Title
    ELSE IF element = "h1" THEN r.H1
    ELSE r.MetaDescription

Normalized(row, element) == clean_value(row[mapping[element]])

RowOfUrl(u) == CHOOSE row \in Range(data) : row["Full URL"] = u

----------------------------------------------------------------------------
(* C1 *)

\* C1: the URL sets of the three combination-pass reports (full, title+h1,
\* title+meta) are pairwise disjoint, in every state of every run.
C1_CombinationReportsDisjoint ==
    \A p \in CombinationPasses : \A q \in CombinationPasses :
        p # q => ReportUrls(p) \cap ReportUrls(q) = {}

\* a finished run with a full-duplicates report and a title+h1 report, where a
\* page of the title+h1 report shares Title and H1 with a fully duplicated page
C1_Witness ==
    /\ pc = "done"
    /\ ReportUrls("full") # {}
    /\ \E r \in DataRows("title_h1") : \E f \in DataRows("full") :
          r.Title = f.Title /\ r.H1 = f.H1

----------------------------------------------------------------------------
(* C2 *)

\* C2: no URL appears in more than one of the six reports of a run (full,
\* title+h1, title+meta, title-only, h1-only, meta_description-only).
C2_NoUrlInTwoReports ==
    \A p \in Passes : \A q \in Passes :
        p # q => ReportUrls(p) \cap ReportUrls(q) = {}

----------------------------------------------------------------------------
(* C3 *)

\* C3: a URL of a combination-pass report is in none of the three single-field
\* reports of the same run.
C3_CombinationUrlsNotInSingleReports ==
    \A p \in CombinationPasses : \A e \in Elements :
        ReportUrls(p) \cap ReportUrls(e) = {}

\* a finished run with a combination report and a single-field report, where a
\* page of the single-field report has the field value of a page claimed by
\* the combination report
C3_Witness ==
    /\ pc = "done"
    /\ \E p \in CombinationPasses : \E e \in Elements :
          \E c \in DataRows(p) : \E r \in DataRows(e) :
              FieldOf(c, e) = FieldOf(r, e)

----------------------------------------------------------------------------
(* C4 *)

StageFour == Elements

\* C4: stage 4 leaves the exclusion set unchanged, and each single-field pass
\* that has been called was given the full original dataset and exactly the
\* exclusion set accumulated by the three combination passes.
C4_SingleFieldPassesShareExclusions ==
    /\ [](\A e \in Elements :
            calls[e].ran =>
                /\ calls[e].df = data
                /\ calls[e].exclude_urls =
                      UNION {ReportUrls(p) : p \in CombinationPasses})
    /\ [][(pc \in StageFour) => (excluded_urls' = excluded_urls)]_vars

\* the h1 pass has run and reports a URL the title-only report holds already
C4_Witness ==
    /\ calls["h1"].ran
    /\ pc # "raised"
    /\ ReportUrls("title") \cap ReportUrls("h1") # {}

----------------------------------------------------------------------------
(* C5 *)

\* C5: every row of every report carries the normalized values of its record,
\* and none of the fields the pass selects is empty in it.
C5_MembersNonEmpty ==
    \A p \in Passes : \A r \in DataRows(p) : \A e \in Selectors(p) :
        /\ FieldOf(r, e) = Normalized(RowOfUrl(r.URL), e)
        /\ FieldOf(r, e) # <<>>

\* a pass has emitted a report although two records it was given agree on all
\* its selected fields, one of which is empty in both
C5_Witness ==
    \E p \in Passes :
        /\ DataRows(p) # {}
        /\ \E i \in DOMAIN calls[p].df : \E j \in DOMAIN calls[p].df :
              /\ i # j
              /\ \A e \in Selectors(p) :
                    Normalized(calls[p].df[i], e) = Normalized(calls[p].df[j], e)
              /\ \E e \in Selectors(p) : Normalized(calls[p].df[i], e) = <<>>
              /\ calls[p].df[i]["Full URL"] \notin calls[p].exclude_urls
              /\ calls[p].df[j]["Full URL"] \notin calls[p].exclude_urls

----------------------------------------------------------------------------
(* C6 *)

\* C6: every group of every report has at least two member rows.
C6_GroupsHaveTwoMembers ==
    \A p \in Passes : \A g \in GroupIds(p) : Cardinality(Members(p, g)) >= 2

\* a finished run with a full-duplicates report, where a page left in no
\* report shares Title and H1 with a page the full pass has claimed: the
\* title+h1 pass saw it alone
C6_Witness ==
    /\ pc = "done"
    /\ \E f \in DataRows("full") : \E row \in Range(data) :
          /\ \A p \in Passes : row["Full URL"] \notin ReportUrls(p)
          /\ Normalized(row, "title") = f.Title
          /\ Normalized(row, "h1") = f.H1

----------------------------------------------------------------------------
(* C7 *)

\* C7: any two members of a group of a combination report have equal
\* normalized values in each field the pass selects, field by field.
C7_CombinationGroupsAgreeFieldwise ==
    \A p \in CombinationPasses : \A g \in GroupIds(p) :
        \A r1 \in Members(p, g) : \A r2 \in Members(p, g) :
            \A e \in Selectors(p) : FieldOf(r1, e) = FieldOf(r2, e)

----------------------------------------------------------------------------
(* C8 *)

\* Bounds of the values the key builder is applied to on its own
MaxLen == 2

\* the strings of at most n characters over the letter and the delimiter
RECURSIVE Strings(_)
Strings(n) ==
    IF n = 0 THEN {<<>>}
    ELSE Strings(n - 1)
         \cup {Append(x, c) : x \in Strings(n - 1), c \in {"a", "|"}}

KeyValues == Strings(MaxLen) \cup {NaN}

SelectorLists ==
    {<<"title", "h1", "meta_description">>, <<"title", "h1">>,
     <<"title", "meta_description">>}

\* two records and a selector list, drawn for create_composite_key
InitKey ==
    /\ \E t1 \in KeyValues : \E h1 \in KeyValues :
       \E t2 \in KeyValues : \E h2 \in KeyValues :
       \E elements \in SelectorLists :
          call_args = <<Row(1, t1, h1, NaN), Row(2, t2, h2, NaN), elements>>
    /\ call_result = <<>>
    /\ data = <<>>
    /\ pc = "key"
    /\ stdout = "console"
    /\ analysis_output = <<>>
    /\ console = <<>>
    /\ excluded_urls = {}
    /\ full_duplicates = <<>>
    /\ title_h1_duplicates = <<>>
    /\ title_meta_duplicates = <<>>
    /\ element_duplicates = [e \in Elements |-> <<>>]
    /\ files = [f \in FileNames |-> <<>>]
    /\ calls = [p \in Passes |-> NotRun]

\* create_composite_key applied to both records
ApplyKey ==
    /\ pc = "key"
    /\ call_result' =
          <<create_composite_key(call_args[1], call_args[3]),
            create_composite_key(call_args[2], call_args[3])>>
    /\ pc' = "keyed"
    /\ UNCHANGED <<data, stdout, analysis_output, console, excluded_urls,
                   full_duplicates, title_h1_duplicates, title_meta_duplicates,
                   element_duplicates, files, calls, call_args>>

SpecKey == InitKey /\ [][ApplyKey]_vars

NormalizedTuple(row, elements) ==
    [i \in 1..Len(elements) |-> Normalized(row, elements[i])]

\* C8: for a fixed selector list, the composite keys of two records are equal
\* if and only if their tuples of normalized values are equal.
C8_KeysEqualIffTuplesEqual ==
    pc = "keyed" =>
        ((call_result[1] = call_result[2])
         <=> (NormalizedTuple(call_args[1], call_args[3])
              = NormalizedTuple(call_args[2], call_args[3])))

----------------------------------------------------------------------------
(* C9 *)

\* main has returned
Terminated == pc \in {"done", "failed"}

\* the two records agree on every field the pass selects, none of them empty
AgreeNonEmpty(r1, r2, p) ==
    \A e \in Selectors(p) :
        /\ Normalized(r1, e) # <<>>
        /\ Normalized(r1, e) = Normalized(r2, e)

\* C9: when main has returned, for every pass that was called: any two records
\* whose URLs were not in the exclusion set at the call and whose normalized
\* values are equal and non-empty in every field the pass selects are rows of
\* one group of the report of that pass.
C9_PassesComplete ==
    Terminated =>
        \A p \in Passes :
            calls[p].ran =>
                \A i \in DOMAIN data : \A j \in DOMAIN data :
                    ( /\ i < j
                      /\ data[i]["Full URL"] \notin calls[p].exclude_urls
                      /\ data[j]["Full URL"] \notin calls[p].exclude_urls
                      /\ AgreeNonEmpty(data[i], data[j], p) )
                    => \E r1 \in DataRows(p) : \E r2 \in DataRows(p) :
                          /\ r1.URL = data[i]["Full URL"]
                          /\ r2.URL = data[j]["Full URL"]
                          /\ r1.GroupID = r2.GroupID

\* a finished run whose title+h1 report groups two pages that differ in Meta
\* Description, and whose title-only report groups two pages that differ in
\* H1 and in Meta Description
C9_Witness ==
    /\ pc = "done"
    /\ \E g \in GroupIds("title_h1") :
          \E r1 \in Members("title_h1", g) : \E r2 \in Members("title_h1", g) :
              r1.MetaDescription # r2.MetaDescription
    /\ \E g \in GroupIds("title") :
          \E r1 \in Members("title", g) : \E r2 \in Members("title", g) :
              r1.H1 # r2.H1 /\ r1.MetaDescription # r2.MetaDescription

----------------------------------------------------------------------------
(* C10 *)

\* the dict a pass has returned
ResultOf(p) ==
    IF p = "full" THEN full_duplicates
    ELSE IF p = "title_h1" THEN title_h1_duplicates
    ELSE IF p = "title_meta" THEN title_meta_duplicates
    ELSE element_duplicates[p]

\* the pass called after a combination pass
Following(p) ==
    IF p = "full" THEN "title_h1"
    ELSE IF p = "title_h1" THEN "title_meta"
    ELSE "title"

\* no two records share a non-empty normalized value in any field
NoDuplicatesAtAnyLevel ==
    \A i \in DOMAIN data : \A j \in DOMAIN data :
        i # j => \A e \in Elements :
            \/ Normalized(data[i], e) = <<>>
            \/ Normalized(data[i], e) # Normalized(data[j], e)

\* a stage has a report file exactly when it found a group
C10_ArtifactIffGroups ==
    \A p \in Passes :
        (files[ReportFile(p)] # <<>>) <=> (calls[p].ran /\ ResultOf(p) # <<>>)

\* a combination stage without groups hands its exclusion set on unchanged
C10_EmptyStageKeepsExclusions ==
    \A p \in CombinationPasses :
        (calls[Following(p)].ran /\ ResultOf(p) = <<>>)
            => calls[Following(p)].exclude_urls = calls[p].exclude_urls

\* C10: a stage has a report file exactly when it found a group, a stage
\* without groups leaves the exclusion set unchanged, and the run of a dataset
\* without duplicates at any level ends with no report file and with the
\* summary written.
C10_ArtifactsAndSummary ==
    /\ C10_ArtifactIffGroups
    /\ C10_EmptyStageKeepsExclusions
    /\ (Terminated /\ NoDuplicatesAtAnyLevel) =>
          /\ \A p \in Passes : files[ReportFile(p)] = <<>>
          /\ files["duplicate_analysis.txt"] # <<>>

----------------------------------------------------------------------------
(* C11 *)

\* the position of a URL in the dataset
IndexOfUrl(u) == CHOOSE i \in DOMAIN data : data[i]["Full URL"] = u

\* the position in the dataset at which the key of group g of a report is
\* met first
FirstEncounter(p, g) ==
    CHOOSE i \in {IndexOfUrl(r.URL) : r \in Members(p, g)} :
        \A r \in Members(p, g) : i <= IndexOfUrl(r.URL)

\* the data rows of a report, in file order
ReportRows(p) ==
    LET rows == files[ReportFile(p)]
    IN  IF rows = <<>> THEN <<>> ELSE SubSeq(rows, 3, Len(rows))

\* C11: in every report the group ids are exactly 1..n for the n groups the
\* pass returned, a group met earlier in the scan of the records has the
\* smaller id, and the rows of one group are contiguous.
C11_GroupIdsInEncounterOrder ==
    \A p \in Passes :
        LET rows == ReportRows(p)
        IN  /\ GroupIds(p) = 1..Len(ResultOf(p))
            /\ \A g \in GroupIds(p) : \A h \in GroupIds(p) :
                  g < h => FirstEncounter(p, g) < FirstEncounter(p, h)
            /\ \A i \in DOMAIN rows : \A j \in DOMAIN rows :
                  i < j => rows[i].GroupID <= rows[j].GroupID

\* a finished run with a report of two groups whose members alternate in the
\* dataset
C11_Witness ==
    /\ pc = "done"
    /\ \E p \in Passes :
          /\ GroupIds(p) = {1, 2}
          /\ \E a \in Members(p, 1) : \E b \in Members(p, 2) :
             \E c \in Members(p, 1) :
                /\ IndexOfUrl(a.URL) < IndexOfUrl(b.URL)
                /\ IndexOfUrl(b.URL) < IndexOfUrl(c.URL)

----------------------------------------------------------------------------
(* C12 *)

MaxCleanLen == 4

\* the strings of at most n characters over a letter, the blank and the
\* delimiter
RECURSIVE TextValues(_)
TextValues(n) ==
    IF n = 0 THEN {<<>>}
    ELSE TextValues(n - 1)
         \cup {Append(x, c) : x \in TextValues(n - 1), c \in {"a", " ", "|"}}

CleanInputs == TextValues(MaxCleanLen) \cup {NaN, None}

\* the state of main and analyze_duplicates while a function is applied on
\* its own
EngineIdle ==
    /\ data = <<>>
    /\ stdout = "console"
    /\ analysis_output = <<>>
    /\ console = <<>>
    /\ excluded_urls = {}
    /\ full_duplicates = <<>>
    /\ title_h1_duplicates = <<>>
    /\ title_meta_duplicates = <<>>
    /\ element_duplicates = [e \in Elements |-> <<>>]
    /\ files = [f \in FileNames |-> <<>>]
    /\ calls = [p \in Passes |-> NotRun]

engine_vars ==
    <<data, stdout, analysis_output, console, excluded_urls, full_duplicates,
      title_h1_duplicates, title_meta_duplicates, element_duplicates, files,
      calls>>

\* a value drawn for clean_value
InitClean ==
    /\ \E value \in CleanInputs : call_args = <<value>>
    /\ call_result = <<>>
    /\ pc = "clean"
    /\ EngineIdle

\* clean_value applied to the value, and applied again to what it returned
ApplyClean ==
    /\ pc = "clean"
    /\ call_result' =
          <<clean_value(call_args[1]), clean_value(clean_value(call_args[1]))>>
    /\ pc' = "cleaned"
    /\ UNCHANGED <<engine_vars, call_args>>

SpecClean == InitClean /\ [][ApplyClean]_vars

\* the value is missing, empty or made of whitespace only
MissingOrBlank(value) ==
    \/ value \in {NaN, None}
    \/ \A i \in DOMAIN value : value[i] = " "

\* C12: clean_value applied to its own result returns that result, and a
\* missing, empty or whitespace-only value is mapped to the empty string.
C12_CleanValueIdempotent ==
    pc = "cleaned" =>
        /\ call_result[2] = call_result[1]
        /\ MissingOrBlank(call_args[1]) => call_result[1] = <<>>

\* a value padded on both sides that has been cleaned to its inner text
C12_Witness ==
    /\ pc = "cleaned"
    /\ call_args[1] = <<" ", "a", "|", " ">>
    /\ call_result[1] = <<"a", "|">>

----------------------------------------------------------------------------
(* C13 *)

MaxSelectors == 3

\* mutant: a selector that is no key of the mapping is passed over
create_composite_key_call_Skipping(row, elements) ==
    LET known(element) == element \in DOMAIN mapping
    IN  [raised |-> FALSE,
         key |-> create_composite_key(row, SelectSeq(elements, known))]

\* a call of create_composite_key: mapping[element] and row[...] raise
\* KeyError for a name that is no key, and then nothing is returned
create_composite_key_call(row, elements) ==
    IF \E i \in 1..Len(elements) :
          \/ elements[i] \notin DOMAIN mapping
          \/ mapping[elements[i]] \notin DOMAIN row
    THEN [raised |-> TRUE, key |-> None]
    ELSE [raised |-> FALSE, key |-> create_composite_key(row, elements)]

\* the three selectors of the mapping and a name that is none of them
SelectorNames == {"title", "h1", "meta_description", "url"}

\* the lists of at most n selector names
RECURSIVE SelectorListsUpTo(_)
SelectorListsUpTo(n) ==
    IF n = 0 THEN {<<>>}
    ELSE SelectorListsUpTo(n - 1)
         \cup {Append(l, s) : l \in SelectorListsUpTo(n - 1), s \in SelectorNames}

\* a record and a selector list drawn for create_composite_key
InitSelector ==
    /\ \E t \in {NaN, <<"a">>} : \E elements \in SelectorListsUpTo(MaxSelectors) :
          call_args = <<Row(1, t, <<"a", " ">>, <<"b">>), elements>>
    /\ call_result = <<>>
    /\ pc = "select"
    /\ EngineIdle

ApplySelector ==
    /\ pc = "select"
    /\ call_result' = create_composite_key_call(call_args[1], call_args[2])
    /\ pc' = "selected"
    /\ UNCHANGED <<engine_vars, call_args>>

SpecSelector == InitSelector /\ [][ApplySelector]_vars

\* C13: whenever the selector list holds a name other than title, h1 and
\* meta_description, create_composite_key fails with an error and returns no
\* key, whatever the record.
C13_UnknownSelectorRaises ==
    pc = "selected" =>
        ((\E i \in DOMAIN call_args[2] :
             call_args[2][i] \notin {"title", "h1", "meta_description"})
         => (call_result.raised /\ call_result.key = None))

\* the call has failed on a list whose first selector is known and whose
\* second is not
C13_Witness ==
    /\ pc = "selected"
    /\ call_args[2] = <<"title", "url">>
    /\ call_result.raised

----------------------------------------------------------------------------
(* C14 *)

\* the URLs written to any of the six reports
ReportedUrls == UNION {ReportUrls(p) : p \in Passes}

\* C14: when the run has completed, every record whose normalized Title is
\* not empty and equals the normalized Title of another record of the dataset
\* is a row of at least one report.
C14_TitleDuplicatesReported ==
    pc = "done" =>
        \A i \in DOMAIN data :
            ( /\ Normalized(data[i], "title") # <<>>
              /\ \E j \in DOMAIN data :
                    /\ j # i
                    /\ Normalized(data[j], "title") = Normalized(data[i], "title") )
            => data[i]["Full URL"] \in ReportedUrls

----------------------------------------------------------------------------
(* C15 *)

\* C15: in each single-field report, two different rows of one group do not
\* have an equal non-empty normalized value in either of the two other fields.
C15_OnlyThatFieldMatches ==
    \A e \in Elements : \A g \in GroupIds(e) :
        \A r1 \in Members(e, g) : \A r2 \in Members(e, g) :
            r1 # r2 =>
                \A f \in Elements \ {e} :
                    \/ FieldOf(r1, f) = <<>>
                    \/ FieldOf(r1, f) # FieldOf(r2, f)

----------------------------------------------------------------------------
(* C16 *)

\* C16: the exclusion set is empty until the first pass has run, and every
\* step of the run leaves it a superset of what it was: no URL is removed.
C16_ExclusionsOnlyGrow ==
    /\ [](pc \in {"main", "full"} => excluded_urls = {})
    /\ [][excluded_urls \subseteq excluded_urls']_vars

\* the exclusion set has grown twice: it holds the URLs of a full-duplicates
\* report and those of a title+h1 report
C16_Witness ==
    /\ pc = "title_meta"
    /\ ReportUrls("full") # {}
    /\ ReportUrls("title_h1") # {}
    /\ excluded_urls = ReportUrls("full") \cup ReportUrls("title_h1")

----------------------------------------------------------------------------
(* C17 *)

\* the combination passes that run before a pass
Before(p) ==
    IF p = "full" THEN {}
    ELSE IF p = "title_h1" THEN {"full"}
    ELSE IF p = "title_meta" THEN {"full", "title_h1"}
    ELSE CombinationPasses

\* the records a pass groups: the DataFrame a combination pass is handed
\* (lines 176, 187), the working copy of a single-field pass after line 74
PassInput(p) ==
    IF p \in CombinationPasses THEN calls[p].df
    ELSE WithoutUrls(calls[p].df, calls[p].exclude_urls)

\* df holds, in the order of the dataset, exactly the records of the dataset
\* whose URL is not in urls
IsRestriction(df, urls) ==
    LET kept == {i \in DOMAIN data : data[i]["Full URL"] \notin urls}
        nth(k) == CHOOSE i \in kept : Cardinality({j \in kept : j <= i}) = k
    IN  /\ Len(df) = Cardinality(kept)
        /\ \A k \in DOMAIN df : df[k] = data[nth(k)]

\* C17: for every pass after the first that has been called, the exclusion
\* set at the call is exactly the set of URLs of the reports of the
\* combination passes run before it, and the records the pass groups are the
\* records of the dataset whose URL is not in that set.
C17_ExclusionsAreEarlierReports ==
    \A p \in Passes \ {"full"} :
        calls[p].ran =>
            LET emitted == UNION {ReportUrls(q) : q \in Before(p)}
            IN  /\ calls[p].exclude_urls = emitted
                /\ IsRestriction(PassInput(p), emitted)

\* a finished run whose title+h1 pass was handed a non-empty part of the
\* dataset without the full duplicates, and whose exclusion set grew again
\* before the single-field passes
C17_Witness ==
    /\ pc = "done"
    /\ calls["title_h1"].exclude_urls # {}
    /\ calls["title_h1"].df # <<>>
    /\ calls["title"].exclude_urls # calls["title_h1"].exclude_urls

----------------------------------------------------------------------------
(* C19 *)

\* C19: in every group a pass has returned, a page that comes earlier in the
\* group comes earlier in the dataset.
C19_MembersInDatasetOrder ==
    \A p \in Passes : \A k \in DOMAIN ResultOf(p) :
        LET pages == ResultOf(p)[k].pages
        IN  \A i \in DOMAIN pages : \A j \in DOMAIN pages :
                i < j => IndexOfUrl(pages[i].url) < IndexOfUrl(pages[j].url)

\* a finished run with a group of three pages that are not consecutive in the
\* dataset
C19_Witness ==
    /\ pc = "done"
    /\ \E p \in Passes : \E k \in DOMAIN ResultOf(p) :
          LET pages == ResultOf(p)[k].pages
          IN  /\ Len(pages) = 3
              /\ pages[1].url = Url(1)
              /\ pages[3].url = Url(4)

----------------------------------------------------------------------------
(* C18 *)

\* Value sets for the runs that fail: Title can be blank and H1 can be
\* missing, in every row
Sparse == [t |-> {<<" ">>, <<"a">>}, h |-> {NaN, <<"a">>}, m |-> {<<"a">>}]

\* the DataFrame of a CSV file without the column
DropColumn(df, column) ==
    [i \in DOMAIN df |-> [c \in Columns \ {column} |-> df[i][c]]]

\* the datasets of read_csv: with the four columns, or with one of them absent
InitMissingColumn ==
    /\ \E n \in 0..MaxRecords : \E df \in Datasets(Sparse, n) :
          \/ data = df
          \/ n > 0 /\ \E column \in Columns : data = DropColumn(df, column)
    /\ pc = "main"
    /\ stdout = "console"
    /\ analysis_output = <<>>
    /\ console = <<>>
    /\ excluded_urls = {}
    /\ full_duplicates = <<>>
    /\ title_h1_duplicates = <<>>
    /\ title_meta_duplicates = <<>>
    /\ element_duplicates = [e \in Elements |-> <<>>]
    /\ files = [f \in FileNames |-> <<>>]
    /\ calls = [p \in Passes |-> NotRun]
    /\ call_args = <<>>
    /\ call_result = <<>>

SpecMissingColumn == InitMissingColumn /\ [][Next]_vars

\* the line main prints at line 230
ErrorLine == <<"Error: An unexpected error occurred:">>

\* C18: when main has reported a failure of analyze_duplicates, sys.stdout is
\* the console again and the error line is on the console and not in the
\* analysis buffer.
C18_ErrorReachesConsole ==
    pc = "failed" =>
        /\ stdout = "console"
        /\ ErrorLine \in Range(console)
        /\ ErrorLine \notin Range(analysis_output)

====
